---- MODULE Spec2Model ----
(***************************************************************************)
(* Model of Lab2Var5.cpp: class VectorSumCalculator.  runBenchmark         *)
(* generates a dataset, then for each entry of thread_counts resets sums,  *)
(* runs measureExecutionTime (one thread per contiguous range of vectors,  *)
(* joined before the timer stops), validates a random sample and finally   *)
(* prints summary statistics.                                              *)
(*                                                                         *)
(* vectors and sums are functions over the C++ indices 0..N-1.  The inner  *)
(* vectors are sequences.  Threads are numbered by their thread_id 1..W.   *)
(* Standard output is kept per emitter: each worker's record holds the     *)
(* lines that worker printed, `reported` holds validateResults' lines.     *)
(***************************************************************************)
EXTENDS Integers, Sequences, FiniteSets, TLC

\* ---- bounds of the model ------------------------------------------------
MaxN == 3
VecSize == 2
MaxW == 3
NumDraws == 3

\* ---- program constants ----------------------------------------------------
MinVal == -1000
MaxVal == 1000
NumTests == 10

\* generateVectors(30000, 100, -1000, 1000)
RefNumVectors == 30000
RefVecSize == 100

\* 2^31 - 1, a value below LLONG_MAX = 2^63 - 1
LLongFloor == 2147483647

\* uniform_int_distribution<int> dis(min_val, max_val): the values a draw may
\* return, taken at NumDraws evenly spaced points of [min_val, max_val], both
\* ends included
Values ==
  {MinVal + (k * (MaxVal - MinVal)) \div (NumDraws - 1) : k \in 0..(NumDraws - 1)}

\* the fill loop draws every element of a vector independently
GeneratedVectors == [1..VecSize -> Values]

\* vector<int> thread_counts = {1, 2, 4};
ReferenceThreadCounts == <<1, 2, 4>>

\* trial lists of the parametric specifications: a run with one worker followed
\* by a run with k workers, and two runs with the same k
TrialLists == {<<1, k>> : k \in 1..MaxW}

RerunLists == {<<k, k>> : k \in 1..MaxW}

VARIABLES
  vectors,            \* vector<vector<int>> vectors
  sums,               \* vector<long long> sums
  output_mutex,       \* 0 = unlocked, else thread_id of the holder
  thread_counts,      \* runBenchmark: the list of worker counts
  pc,                 \* position of the main thread
  trial,              \* runBenchmark: 1-based position in thread_counts
  num_threads,        \* measureExecutionTime: argument
  vectors_per_thread, \* measureExecutionTime: local
  remaining_vectors,  \* measureExecutionTime: local
  current_start,      \* measureExecutionTime: local
  threads,            \* the worker threads of the current trial
  joined,             \* measureExecutionTime: number of threads joined
  timer,              \* "unset", "running" (start taken), "stopped" (end taken)
  execution_times,    \* runBenchmark: one entry per finished trial
  test,               \* validateResults: loop counter
  reported,           \* validateResults: indices printed as mismatching
  valid,              \* runBenchmark: validateResults' return value per trial
  stats,              \* runBenchmark: <<min_sum, max_sum, total_sum, size>>
  exit_code,          \* main: -1 while running
  writers,            \* history: per index, thread_ids that stored to it this trial
  results,            \* history: sums as left at the return of each trial
  sampled             \* history: indices drawn by the current validateResults

vars == <<vectors, sums, output_mutex, thread_counts, pc, trial, num_threads,
          vectors_per_thread, remaining_vectors, current_start, threads, joined,
          timer, execution_times, test, reported, valid, stats, exit_code,
          writers, results, sampled>>

mainLocals == <<num_threads, vectors_per_thread, remaining_vectors, current_start>>
validateVars == <<test, reported, valid, sampled>>

\* ---- helpers --------------------------------------------------------------
Size(f) == Cardinality(DOMAIN f)

Indices == 0..(Size(vectors) - 1)

\* mutant: the accumulation stops one element early
RECURSIVE AccumulateShort(_, _, _)
AccumulateShort(v, j, sum) ==
  IF j >= Len(v) THEN sum ELSE AccumulateShort(v, j + 1, sum + v[j])

\* long long sum = 0; for (int value : vectors[i]) sum += value;
RECURSIVE Accumulate(_, _, _)
Accumulate(v, j, sum) ==
  IF j > Len(v) THEN sum ELSE Accumulate(v, j + 1, sum + v[j])

SumVec(v) == Accumulate(v, 1, 0)

\* mutant: the remainder is handed out with an off-by-one test
VectorsForThreadOffByOne(i, per, rem) == IF i <= rem THEN per + 1 ELSE per

\* mutant: the remainder goes to the last threads instead of the first
VectorsForThreadLast(i, per, rem) ==
  IF i >= num_threads - rem THEN per + 1 ELSE per

\* mutant: the remainder is dropped
VectorsForThreadNoRemainder(i, per, rem) == per

\* int vectors_for_this_thread = vectors_per_thread; if (i < remaining) ++...
VectorsForThread(i, per, rem) == IF i < rem THEN per + 1 ELSE per

\* mutant: the print is not guarded
CanLockAlways(t) == TRUE

\* lock_guard<mutex> lock(output_mutex) can be constructed
CanLock(t) == output_mutex = 0

\* mutant: join does not wait for the thread
JoinReturnsAtOnce(k) == TRUE

\* thread.join() returns
JoinReturns(k) == threads[k].pc = "done"

\* mutant: only the first thread is joined
JoinLoopDoneAfterFirst(n) == n >= 1

\* the range-for over threads has joined every thread
JoinLoopDone(n) == n >= Len(threads)

\* ---- initial state -------------------------------------------------------
InitCommon ==
  /\ vectors = <<>>
  /\ sums = <<>>
  /\ output_mutex = 0
  /\ pc = "generate"
  /\ trial = 1
  /\ num_threads = 0
  /\ vectors_per_thread = 0
  /\ remaining_vectors = 0
  /\ current_start = 0
  /\ threads = <<>>
  /\ joined = 0
  /\ timer = "unset"
  /\ execution_times = <<>>
  /\ test = 0
  /\ reported = <<>>
  /\ valid = <<>>
  /\ stats = <<>>
  /\ exit_code = -1
  /\ writers = <<>>
  /\ results = <<>>
  /\ sampled = {}

Init == InitCommon /\ thread_counts = ReferenceThreadCounts

InitW == InitCommon /\ thread_counts \in TrialLists

InitRerun == InitCommon /\ thread_counts \in RerunLists

\* ---- main thread: runBenchmark ---------------------------------------------
\* generateVectors(num_vectors, vector_size, min_val, max_val)
generateVectors ==
  /\ pc = "generate"
  /\ \E n \in 1..MaxN :
       \E data \in [0..(n - 1) -> GeneratedVectors] :
         /\ vectors' = data
         /\ sums' = [i \in 0..(n - 1) |-> 0]
         /\ writers' = [i \in 0..(n - 1) |-> <<>>]
  /\ pc' = "trial"
  /\ UNCHANGED <<output_mutex, thread_counts, trial, mainLocals, threads, joined,
                 timer, execution_times, validateVars, stats, exit_code, results>>

\* mutant: the trial loop does not reset sums
fillSumsKeep ==
  /\ pc = "trial"
  /\ trial <= Len(thread_counts)
  /\ writers' = [i \in DOMAIN sums |-> <<>>]
  /\ num_threads' = thread_counts[trial]
  /\ pc' = "measure"
  /\ UNCHANGED <<vectors, sums, output_mutex, thread_counts, trial,
                 vectors_per_thread, remaining_vectors, current_start, threads,
                 joined, timer, execution_times, validateVars, stats, exit_code,
                 results>>

\* for (int num_threads : thread_counts) { fill(sums.begin(), sums.end(), 0);
fillSums ==
  /\ pc = "trial"
  /\ trial <= Len(thread_counts)
  /\ sums' = [i \in DOMAIN sums |-> 0]
  /\ writers' = [i \in DOMAIN sums |-> <<>>]
  /\ num_threads' = thread_counts[trial]
  /\ pc' = "measure"
  /\ UNCHANGED <<vectors, output_mutex, thread_counts, trial, vectors_per_thread,
                 remaining_vectors, current_start, threads, joined, timer,
                 execution_times, validateVars, stats, exit_code, results>>

\* measureExecutionTime: vector<thread> threads; vectors_per_thread; remaining
measureBegin ==
  /\ pc = "measure"
  /\ threads' = <<>>
  /\ vectors_per_thread' = Size(vectors) \div num_threads
  /\ remaining_vectors' = Size(vectors) % num_threads
  /\ joined' = 0
  /\ pc' = "timer"
  /\ UNCHANGED <<vectors, sums, output_mutex, thread_counts, trial, num_threads,
                 current_start, timer, execution_times, validateVars, stats,
                 exit_code, writers, results>>

\* mutant: the start time is not taken before the launch loop
startTimerLate ==
  /\ pc = "timer"
  /\ current_start' = 0
  /\ pc' = "launch"
  /\ UNCHANGED <<vectors, sums, output_mutex, thread_counts, trial, num_threads,
                 vectors_per_thread, remaining_vectors, threads, joined, timer,
                 execution_times, validateVars, stats, exit_code, writers, results>>

\* auto start = now(); int current_start = 0;
startTimer ==
  /\ pc = "timer"
  /\ timer' = "running"
  /\ current_start' = 0
  /\ pc' = "launch"
  /\ UNCHANGED <<vectors, sums, output_mutex, thread_counts, trial, num_threads,
                 vectors_per_thread, remaining_vectors, threads, joined,
                 execution_times, validateVars, stats, exit_code, writers, results>>

\* one iteration of the launch loop; i is Len(threads)
launchThread ==
  /\ pc = "launch"
  /\ LET i == Len(threads)
         end_idx == current_start
                      + VectorsForThread(i, vectors_per_thread, remaining_vectors)
     IN /\ threads' = Append(threads,
                        [pc |-> "loop", start_idx |-> current_start,
                         end_idx |-> end_idx, thread_id |-> i + 1,
                         i |-> current_start, sum |-> 0, printed |-> <<>>])
        /\ current_start' = end_idx
        /\ pc' = IF i + 1 < num_threads THEN "launch" ELSE "join"
  /\ UNCHANGED <<vectors, sums, output_mutex, thread_counts, trial, num_threads,
                 vectors_per_thread, remaining_vectors, joined, timer,
                 execution_times, validateVars, stats, exit_code, writers, results>>

\* for (auto& thread : threads) thread.join();
joinThread ==
  /\ pc = "join"
  /\ JoinReturns(joined + 1)
  /\ joined' = joined + 1
  /\ pc' = IF JoinLoopDone(joined + 1) THEN "stop" ELSE "join"
  /\ UNCHANGED <<vectors, sums, output_mutex, thread_counts, trial, mainLocals,
                 threads, timer, execution_times, validateVars, stats, exit_code,
                 writers, results>>

\* end = now(); return duration; execution_times.push_back(time);
measureEnd ==
  /\ pc = "stop"
  /\ timer' = "stopped"
  /\ execution_times' = Append(execution_times, "ms")
  /\ results' = Append(results, sums)
  /\ test' = 0
  /\ sampled' = {}
  /\ pc' = "validate"
  /\ UNCHANGED <<vectors, sums, output_mutex, thread_counts, trial, mainLocals,
                 threads, joined, reported, valid, stats, exit_code, writers>>

\* ---- worker thread: calculateSumsRange ------------------------------------
SetThread(t, r) == [threads EXCEPT ![t] = r]

workerFrame == <<vectors, thread_counts, pc, trial, mainLocals, joined, timer,
                 execution_times, validateVars, stats, exit_code, results>>

\* mutant: the accumulator is declared outside the loop and carried from one
\* vector to the next
workerLoopCarry(t) ==
  /\ threads[t].pc = "loop"
  /\ IF threads[t].i < threads[t].end_idx
       THEN threads' = SetThread(t, [threads[t] EXCEPT
                          !.sum = Accumulate(vectors[threads[t].i], 1, threads[t].sum),
                          !.pc = "store"])
       ELSE threads' = SetThread(t, [threads[t] EXCEPT !.pc = "lock"])
  /\ UNCHANGED <<sums, output_mutex, writers>>
  /\ UNCHANGED workerFrame

\* for (int i = start_idx; i < end_idx; ++i) { long long sum = 0; for (...) sum += value;
workerLoop(t) ==
  /\ threads[t].pc = "loop"
  /\ IF threads[t].i < threads[t].end_idx
       THEN threads' = SetThread(t, [threads[t] EXCEPT
                          !.sum = SumVec(vectors[threads[t].i]), !.pc = "store"])
       ELSE threads' = SetThread(t, [threads[t] EXCEPT !.pc = "lock"])
  /\ UNCHANGED <<sums, output_mutex, writers>>
  /\ UNCHANGED workerFrame

\* mutant: the store uses the index relative to the start of the range
StoreIndexLocal(t) == threads[t].i - threads[t].start_idx

\* mutant: the store goes one past the vector just summed
StoreIndexNext(t) == threads[t].i + 1

\* the index calculateSumsRange stores to
StoreIndex(t) == threads[t].i

\* sums[i] = sum; ++i
workerStore(t) ==
  /\ threads[t].pc = "store"
  /\ sums' = [sums EXCEPT ![StoreIndex(t)] = threads[t].sum]
  /\ writers' = [writers EXCEPT ![StoreIndex(t)] = Append(@, threads[t].thread_id)]
  /\ threads' = SetThread(t, [threads[t] EXCEPT !.i = @ + 1, !.pc = "loop"])
  /\ UNCHANGED output_mutex
  /\ UNCHANGED workerFrame

\* { lock_guard<mutex> lock(output_mutex);
workerLock(t) ==
  /\ threads[t].pc = "lock"
  /\ CanLock(t)
  /\ output_mutex' = threads[t].thread_id
  /\ threads' = SetThread(t, [threads[t] EXCEPT !.pc = "print"])
  /\ UNCHANGED <<sums, writers>>
  /\ UNCHANGED workerFrame

\* mutant: the line carries end_idx instead of end_idx - 1
workerPrintEnd(t) ==
  /\ threads[t].pc = "print"
  /\ threads' = SetThread(t, [threads[t] EXCEPT
                   !.printed = Append(@, <<threads[t].thread_id,
                                           threads[t].start_idx,
                                           threads[t].end_idx>>),
                   !.pc = "unlock"])
  /\ UNCHANGED <<sums, output_mutex, writers>>
  /\ UNCHANGED workerFrame

\* cout << thread_id << start_idx << (end_idx - 1) << endl;
workerPrint(t) ==
  /\ threads[t].pc = "print"
  /\ threads' = SetThread(t, [threads[t] EXCEPT
                   !.printed = Append(@, <<threads[t].thread_id,
                                           threads[t].start_idx,
                                           threads[t].end_idx - 1>>),
                   !.pc = "unlock"])
  /\ UNCHANGED <<sums, output_mutex, writers>>
  /\ UNCHANGED workerFrame

\* mutant: the thread function returns without releasing the mutex
workerUnlockKeep(t) ==
  /\ threads[t].pc = "unlock"
  /\ threads' = SetThread(t, [threads[t] EXCEPT !.pc = "done"])
  /\ UNCHANGED <<sums, output_mutex, writers>>
  /\ UNCHANGED workerFrame

\* } the lock_guard goes out of scope; the thread function returns
workerUnlock(t) ==
  /\ threads[t].pc = "unlock"
  /\ output_mutex' = 0
  /\ threads' = SetThread(t, [threads[t] EXCEPT !.pc = "done"])
  /\ UNCHANGED <<sums, writers>>
  /\ UNCHANGED workerFrame

calculateSumsRange ==
  \E t \in DOMAIN threads :
    /\ pc # "aborted"
    /\ \/ workerLoop(t)
       \/ workerStore(t)
       \/ workerLock(t)
       \/ workerPrint(t)
       \/ workerUnlock(t)

\* ---- main thread: validateResults -------------------------------------------
\* mutant: only a stored value below the recomputed one counts as a mismatch
MismatchBelow(idx) == sums[idx] < SumVec(vectors[idx])

\* if (sums[idx] != expected_sum), expected_sum recomputed from vectors[idx]
Mismatch(idx) == sums[idx] # SumVec(vectors[idx])

\* one iteration of the sampling loop: int idx = dis(gen); ...
validateResults ==
  /\ pc = "validate"
  /\ \E idx \in Indices :
       /\ sampled' = sampled \cup {idx}
       /\ IF Mismatch(idx)
            THEN /\ reported' = Append(reported, idx)
                 /\ valid' = Append(valid, FALSE)
                 /\ test' = test
                 /\ pc' = "report"
            ELSE /\ reported' = reported
                 /\ test' = test + 1
                 /\ IF test + 1 < NumTests
                      THEN valid' = valid /\ pc' = "validate"
                      ELSE valid' = Append(valid, TRUE) /\ pc' = "report"
  /\ UNCHANGED <<vectors, sums, output_mutex, thread_counts, trial, mainLocals,
                 threads, joined, timer, execution_times, stats, exit_code,
                 writers, results>>

\* mutant: a trial whose validation failed is run again
recordTrialRetry ==
  /\ pc = "report"
  /\ trial' = IF valid[Len(valid)] THEN trial + 1 ELSE trial
  /\ test' = 0
  /\ sampled' = {}
  /\ pc' = "trial"
  /\ UNCHANGED <<vectors, sums, output_mutex, thread_counts, mainLocals, threads,
                 joined, timer, execution_times, reported, valid, stats, exit_code,
                 writers, results>>

\* if (validateResults()) cout << ...; cout << time; } next num_threads
\* (the locals of the finished validateResults call are gone)
recordTrial ==
  /\ pc = "report"
  /\ trial' = trial + 1
  /\ test' = 0
  /\ sampled' = {}
  /\ pc' = "trial"
  /\ UNCHANGED <<vectors, sums, output_mutex, thread_counts, mainLocals, threads,
                 joined, timer, execution_times, reported, valid, stats, exit_code,
                 writers, results>>

\* ---- main thread: summary ---------------------------------------------------
Range(f) == {f[i] : i \in DOMAIN f}

\* *min_element(sums.begin(), sums.end())
MinElement(f) == CHOOSE x \in Range(f) : \A y \in Range(f) : x <= y

\* *max_element(sums.begin(), sums.end())
MaxElement(f) == CHOOSE x \in Range(f) : \A y \in Range(f) : x >= y

\* mutant: the total leaves the last element out
RECURSIVE TotalFromShort(_, _, _)
TotalFromShort(f, i, total) ==
  IF i >= Size(f) - 1 THEN total ELSE TotalFromShort(f, i + 1, total + f[i])

\* long long total_sum = 0; for (long long sum : sums) total_sum += sum;
RECURSIVE TotalFrom(_, _, _)
TotalFrom(f, i, total) ==
  IF i >= Size(f) THEN total ELSE TotalFrom(f, i + 1, total + f[i])

TotalSum(f) == TotalFrom(f, 0, 0)

\* the statistics block after the trial loop
printSummary ==
  /\ pc = "trial"
  /\ trial > Len(thread_counts)
  /\ stats' = <<MinElement(sums), MaxElement(sums), TotalSum(sums), Size(sums)>>
  /\ pc' = "exit"
  /\ UNCHANGED <<vectors, sums, output_mutex, thread_counts, trial, mainLocals,
                 threads, joined, timer, execution_times, validateVars, exit_code,
                 writers, results>>

\* runBenchmark returns; main: return 0;
mainReturn ==
  /\ pc = "exit"
  /\ exit_code' = 0
  /\ pc' = "done"
  /\ UNCHANGED <<vectors, sums, output_mutex, thread_counts, trial, mainLocals,
                 threads, joined, timer, execution_times, validateVars, stats,
                 writers, results>>

Next ==
  \/ generateVectors
  \/ fillSums
  \/ measureBegin
  \/ startTimer
  \/ launchThread
  \/ joinThread
  \/ measureEnd
  \/ calculateSumsRange
  \/ validateResults
  \/ recordTrial
  \/ printSummary
  \/ mainReturn

Spec == Init /\ [][Next]_vars

SpecW == InitW /\ [][Next]_vars

SpecRerun == InitRerun /\ [][Next]_vars

\* ---- validateResults on an arbitrary (possibly corrupted) sums -------------
\* every stored result is either the exact sum or the exact sum plus one
InitValidate ==
  /\ \E n \in 1..MaxN :
       /\ vectors \in [0..(n - 1) -> GeneratedVectors]
       /\ sums \in [0..(n - 1) -> {SumVec(v) + d : v \in GeneratedVectors,
                                                  d \in {0, 1}}]
       /\ \A i \in 0..(n - 1) : sums[i] - SumVec(vectors[i]) \in {0, 1}
       /\ writers = [i \in 0..(n - 1) |-> <<>>]
  /\ output_mutex = 0
  /\ thread_counts = <<1>>
  /\ pc = "validate"
  /\ trial = 1
  /\ num_threads = 1
  /\ vectors_per_thread = 0
  /\ remaining_vectors = 0
  /\ current_start = 0
  /\ threads = <<>>
  /\ joined = 0
  /\ timer = "stopped"
  /\ execution_times = <<"ms">>
  /\ test = 0
  /\ reported = <<>>
  /\ valid = <<>>
  /\ stats = <<>>
  /\ exit_code = -1
  /\ results = <<sums>>
  /\ sampled = {}

NextValidate ==
  \/ validateResults
  \/ recordTrial
  \/ printSummary
  \/ mainReturn

SpecValidate == InitValidate /\ [][NextValidate]_vars

\* ---- fair scheduling -----------------------------------------------------------
\* the steps of the main thread
MainNext ==
  \/ generateVectors
  \/ fillSums
  \/ measureBegin
  \/ startTimer
  \/ launchThread
  \/ joinThread
  \/ measureEnd
  \/ validateResults
  \/ recordTrial
  \/ printSummary
  \/ mainReturn

\* the scheduler does not stop the main thread for ever while it can run, nor
\* all the workers for ever while one of them can run
SpecFair ==
  /\ Init
  /\ [][Next]_vars
  /\ WF_vars(MainNext)
  /\ WF_vars(calculateSumsRange)

\* ---- failures: exceptions thrown during the run ------------------------------
\* how the process ends when std::terminate aborts it (128 + SIGABRT)
ExitAbort == 134

\* generateVectors: an allocation (resize) throws bad_alloc; nothing between the
\* throw and main's handler owns a thread, so the handler is reached
generateVectorsThrows ==
  /\ pc = "generate"
  /\ pc' = "catch"
  /\ UNCHANGED <<vectors, sums, output_mutex, thread_counts, trial, mainLocals,
                 threads, joined, timer, execution_times, validateVars, stats,
                 exit_code, writers, results>>

\* measureExecutionTime: threads.emplace_back throws (the thread cannot be started).
\* Unwinding destroys the local vector<thread>: with no thread in it the exception
\* reaches main's handler; with a thread in it, which is joinable because it was
\* never joined, ~thread calls std::terminate and the process is aborted
launchThreadThrows ==
  /\ pc = "launch"
  /\ IF threads = <<>>
       THEN pc' = "catch" /\ exit_code' = exit_code
       ELSE pc' = "aborted" /\ exit_code' = ExitAbort
  /\ UNCHANGED <<vectors, sums, output_mutex, thread_counts, trial, mainLocals,
                 threads, joined, timer, execution_times, validateVars, stats,
                 writers, results>>

\* catch (const exception& e) { cerr << ...; return 1; }
mainCatch ==
  /\ pc = "catch"
  /\ exit_code' = 1
  /\ pc' = "done"
  /\ UNCHANGED <<vectors, sums, output_mutex, thread_counts, trial, mainLocals,
                 threads, joined, timer, execution_times, validateVars, stats,
                 writers, results>>

NextFail ==
  \/ Next
  \/ generateVectorsThrows
  \/ launchThreadThrows
  \/ mainCatch

SpecFail == Init /\ [][NextFail]_vars

\* ---- the trial loop entered with a first trial whose stored sums may be wrong ---
\* the state at the call of validateResults in the first trial of a list <<1,k>>:
\* the one worker has run and been joined, the time is recorded; the stored
\* results are exact but for at most one, which is the exact sum plus one
InitMismatch ==
  /\ \E n \in 1..MaxN :
       /\ vectors \in [0..(n - 1) -> GeneratedVectors]
       /\ sums \in [0..(n - 1) -> {SumVec(v) + d : v \in GeneratedVectors,
                                                  d \in {0, 1}}]
       /\ \A i \in 0..(n - 1) : sums[i] - SumVec(vectors[i]) \in {0, 1}
       /\ Cardinality({i \in 0..(n - 1) : sums[i] # SumVec(vectors[i])}) <= 1
       /\ writers = [i \in 0..(n - 1) |-> <<1>>]
       /\ threads = <<[pc |-> "done", start_idx |-> 0, end_idx |-> n,
                        thread_id |-> 1, i |-> n, sum |-> sums[n - 1],
                        printed |-> << <<1, 0, n - 1>> >>]>>
       /\ vectors_per_thread = n
       /\ current_start = n
  /\ output_mutex = 0
  /\ thread_counts \in TrialLists
  /\ pc = "validate"
  /\ trial = 1
  /\ num_threads = 1
  /\ remaining_vectors = 0
  /\ joined = 1
  /\ timer = "stopped"
  /\ execution_times = <<"ms">>
  /\ test = 0
  /\ reported = <<>>
  /\ valid = <<>>
  /\ stats = <<>>
  /\ exit_code = -1
  /\ results = <<sums>>
  /\ sampled = {}

NextTrials ==
  \/ fillSums
  \/ measureBegin
  \/ startTimer
  \/ launchThread
  \/ joinThread
  \/ measureEnd
  \/ calculateSumsRange
  \/ validateResults
  \/ recordTrial
  \/ printSummary
  \/ mainReturn

SpecMismatch == InitMismatch /\ [][NextTrials]_vars

\* ---- properties ---------------------------------------------------------------
\* the exact sum of a vector, defined on the sequence and not by the program's loop
RECURSIVE ExactSum(_)
ExactSum(v) == IF v = <<>> THEN 0 ELSE Head(v) + ExactSum(Tail(v))

\* measureExecutionTime has returned and sums has not been reset since
Returned ==
  \/ pc \in {"validate", "report"}
  \/ pc \in {"trial", "exit", "done"} /\ results # <<>>

\* every thread of the current call of measureExecutionTime has been created
AllLaunched == pc \in {"join", "stop", "validate", "report"}

RangeSize(k) == threads[k].end_idx - threads[k].start_idx

InRange(k, i) == threads[k].start_idx <= i /\ i < threads[k].end_idx

\* C1: once measureExecutionTime has returned, every sums[i] is the exact sum of
\* vectors[i], for every dataset, every worker count and every interleaving.
C1_SumsExact ==
  Returned => \A i \in Indices : sums[i] = ExactSum(vectors[i])

C1_Witness ==
  /\ pc = "validate"
  /\ num_threads >= 2
  /\ \E i, j \in Indices :
       /\ sums[i] # 0
       /\ sums[i] # sums[j]
       /\ writers[i] # writers[j]

\* C2: for 1 <= W <= N the ranges handed to the workers are ordered by increasing
\* start, contiguous from 0 to N, pairwise disjoint, their sizes sum to N and every
\* index of [0,N) lies in exactly one range.
RECURSIVE SizesUpTo(_)
SizesUpTo(k) == IF k = 0 THEN 0 ELSE SizesUpTo(k - 1) + RangeSize(k)

C2_RangesPartition ==
  (AllLaunched /\ num_threads <= Size(vectors)) =>
    /\ Len(threads) = num_threads
    /\ threads[1].start_idx = 0
    /\ \A k \in 1..(Len(threads) - 1) :
         /\ threads[k + 1].start_idx = threads[k].end_idx
         /\ threads[k].start_idx < threads[k + 1].start_idx
    /\ threads[Len(threads)].end_idx = Size(vectors)
    /\ \A k, l \in DOMAIN threads :
         k # l => (threads[k].end_idx <= threads[l].start_idx
                   \/ threads[l].end_idx <= threads[k].start_idx)
    /\ SizesUpTo(Len(threads)) = Size(vectors)
    /\ \A i \in Indices :
         Cardinality({k \in DOMAIN threads : InRange(k, i)}) = 1

C2_Witness ==
  /\ pc = "join"
  /\ num_threads = 2
  /\ Size(vectors) = 3
  /\ threads[2].start_idx = 2
  /\ threads[2].end_idx = 3

\* C3: within a trial every index of sums is stored to exactly once, by the one
\* worker whose range holds it; no two workers are ever about to store to the same
\* index, and no worker stores while the main thread is reading or resetting sums.
C3_NoRace ==
  /\ \A i \in DOMAIN writers :
       /\ Len(writers[i]) <= 1
       /\ writers[i] # <<>> =>
            /\ writers[i][1] \in DOMAIN threads
            /\ InRange(writers[i][1], i)
  /\ pc \in {"stop", "validate", "report"} =>
       \A i \in DOMAIN writers : Len(writers[i]) = 1
  /\ \A t, u \in DOMAIN threads :
       (t # u /\ threads[t].pc = "store" /\ threads[u].pc = "store")
         => StoreIndex(t) # StoreIndex(u)
  /\ \A t \in DOMAIN threads :
       threads[t].pc = "store" =>
         /\ pc \in {"launch", "join"}
         /\ StoreIndex(t) \in Indices
         /\ writers[StoreIndex(t)] = <<>>

C3_Witness ==
  \E t, u \in DOMAIN threads :
    /\ t # u
    /\ threads[t].pc = "store"
    /\ threads[u].pc = "store"
    /\ \E i \in Indices : writers[i] # <<>>

\* C4: at most one worker holds output_mutex and emits its line at any time.
Printing == {t \in DOMAIN threads : threads[t].pc \in {"print", "unlock"}}

C4_PrintExclusive ==
  /\ Cardinality(Printing) <= 1
  /\ \A t \in Printing : output_mutex = threads[t].thread_id
  /\ Printing = {} => output_mutex = 0

C4_Witness ==
  \E t, u \in DOMAIN threads :
    /\ t # u
    /\ threads[t].pc = "print"
    /\ threads[u].pc = "lock"

\* C5: whenever the main thread is outside the launch and join loops (the timer is
\* about to stop or stopped, validation runs, sums is reset, the next trial is about
\* to launch, the summary is computed) every worker of the trial has terminated.
C5_JoinBarrier ==
  (pc \notin {"launch", "join"} \/ timer = "stopped") =>
    \A t \in DOMAIN threads : threads[t].pc = "done"

C5_Witness ==
  /\ pc = "measure"
  /\ trial = 3
  /\ Len(threads) = 2
  /\ timer = "stopped"

\* C6: for 1 <= W <= N the first (N mod W) ranges have size floor(N/W)+1 and the
\* others size floor(N/W).
C6_BalancedSizes ==
  (AllLaunched /\ num_threads <= Size(vectors)) =>
    \A k \in DOMAIN threads :
      RangeSize(k) = IF k <= Size(vectors) % num_threads
                       THEN (Size(vectors) \div num_threads) + 1
                       ELSE Size(vectors) \div num_threads

C6_Witness ==
  /\ pc = "stop"
  /\ num_threads = 2
  /\ Size(vectors) = 3
  /\ RangeSize(1) = 2
  /\ RangeSize(2) = 1

\* C7: the sums a trial with k workers leaves are elementwise those the trial with
\* one worker left on the same dataset.
C7_PartitionCountInvariant ==
  thread_counts[1] = 1 =>
    \A k \in DOMAIN results : results[k] = results[1]

C7_Witness ==
  /\ Len(results) = 2
  /\ thread_counts[1] = 1
  /\ thread_counts[2] = 2
  /\ Size(vectors) = 3
  /\ results[2][2] # 0

\* C8: resetting sums and running again with the same worker count leaves the same
\* sums as the run before.
C8_RerunIdempotent ==
  \A a, b \in DOMAIN results :
    thread_counts[a] = thread_counts[b] => results[a] = results[b]

C8_Witness ==
  /\ Len(results) = 2
  /\ thread_counts = <<2, 2>>
  /\ Size(vectors) = 2
  /\ results[2][0] # results[2][1]

\* C9: a step of a worker changes sums only inside the worker's own range, and
\* vectors is never changed once generated.
WorkerStepped(t) == t \in DOMAIN threads' /\ threads'[t] # threads[t]

C9_WorkerFrame ==
  [][/\ pc # "generate" => vectors' = vectors
     /\ \A t \in DOMAIN threads :
          WorkerStepped(t) =>
            \A j \in DOMAIN sums :
              ~InRange(t, j) => (sums'[j] = sums[j] /\ writers'[j] = writers[j])]_vars

C9_Witness ==
  /\ Len(threads) = 2
  /\ Size(vectors) = 3
  /\ writers[2] = <<2>>
  /\ writers[0] = <<>>
  /\ sums[2] # 0

\* C10: validateResults returns true exactly when every index it sampled holds the
\* exact sum, after NumTests samples; it returns false at the first sampled index
\* that differs, reporting that index, and it changes neither sums nor vectors.
ExactAt(idx) == sums[idx] = ExactSum(vectors[idx])

C10_ValidateVerdict ==
  /\ [](pc = "report" =>
         /\ sampled \subseteq Indices
         /\ valid[Len(valid)] = (\A idx \in sampled : ExactAt(idx))
         /\ valid[Len(valid)] => (test = NumTests /\ reported = <<>>)
         /\ ~valid[Len(valid)] =>
              /\ test < NumTests
              /\ Len(reported) = 1
              /\ reported[1] \in sampled
              /\ ~ExactAt(reported[1])
              /\ \A idx \in sampled \ {reported[1]} : ExactAt(idx)
              /\ Cardinality(sampled) <= test + 1)
  /\ [][pc = "validate" => (sums' = sums /\ vectors' = vectors)]_vars

C10_Witness ==
  /\ pc = "report"
  /\ valid = <<FALSE>>
  /\ test >= 2
  /\ Cardinality(sampled) = 3

\* C11: a failed validation changes nothing in the course of the run: the time of
\* the trial stays recorded, the trial is not repeated, the remaining worker counts
\* are run in list order, one trial each, and the run ends in the summary with
\* exit code 0.
TrialsMeasured ==
  IF pc \in {"validate", "report"} THEN trial ELSE trial - 1

C11_MismatchNonFatal ==
  /\ trial \in 1..(Len(thread_counts) + 1)
  /\ Len(execution_times) = TrialsMeasured
  /\ Len(results) = TrialsMeasured
  /\ Len(valid) = IF pc = "validate" THEN trial - 1 ELSE TrialsMeasured
  /\ pc \in {"measure", "timer", "launch", "join", "stop", "validate", "report"}
       => num_threads = thread_counts[trial]
  /\ pc \in {"exit", "done"} =>
       /\ trial = Len(thread_counts) + 1
       /\ stats # <<>>
  /\ pc = "done" <=> exit_code = 0
  /\ exit_code \in {-1, 0}
  /\ pc # "done" => ENABLED NextTrials

C11_Witness ==
  /\ pc = "done"
  /\ exit_code = 0
  /\ valid = <<FALSE, TRUE>>
  /\ thread_counts = <<1, 2>>
  /\ Len(execution_times) = 2
  /\ Len(reported) = 1

\* C12: when the first worker of a trial is launched sums is all zero, and when
\* validateResults reads sums every index has been stored to by a worker of that
\* trial.
BeforeFirstLaunch ==
  pc \in {"measure", "timer"} \/ (pc = "launch" /\ threads = <<>>)

C12_ResetThenOverwritten ==
  /\ BeforeFirstLaunch => \A i \in Indices : sums[i] = 0
  /\ pc = "validate" =>
       /\ Len(threads) = thread_counts[trial]
       /\ \A i \in Indices :
            /\ Len(writers[i]) = 1
            /\ writers[i][1] \in DOMAIN threads

C12_Witness ==
  /\ pc = "launch"
  /\ threads = <<>>
  /\ trial = 2
  /\ \E i \in Indices : results[1][i] # 0
  /\ \A i \in Indices : sums[i] = 0

\* C13 as stated: when the timer is started every one of the W ranges has been
\* computed; the timer runs whenever a worker is live; it is stopped only after
\* the last worker.  (A range is computed by the loop iteration that creates its
\* thread, so the ranges computed so far are those of the threads created.)
RangesComputed == Len(threads)

TimerCoversWorkers ==
  (\E t \in DOMAIN threads : threads[t].pc # "done") => timer = "running"

C13_OriginalOrder ==
  /\ (timer = "running" /\ pc \in {"launch", "join", "stop"})
       => RangesComputed = num_threads
  /\ TimerCoversWorkers

\* C13 amended: the per-worker quota and the remainder are computed before the
\* timer is started; the timer is started before any worker is created; each
\* range is computed while the timer runs, in the iteration that creates its
\* worker; the timer is stopped only after all W workers were created and have
\* terminated.
C13_AmendedOrder ==
  /\ [](/\ timer = "running" =>
             /\ pc \in {"launch", "join", "stop"}
             /\ vectors_per_thread = Size(vectors) \div num_threads
             /\ remaining_vectors = Size(vectors) % num_threads
        /\ pc = "timer" => (threads = <<>> /\ timer # "running")
        /\ TimerCoversWorkers)
  /\ [][/\ RangesComputed' = RangesComputed + 1 =>
             (timer = "running" /\ RangesComputed < num_threads)
        /\ (timer = "running" /\ timer' = "stopped") =>
             /\ RangesComputed = num_threads
             /\ \A t \in DOMAIN threads : threads[t].pc = "done"]_vars

C13_Witness ==
  /\ pc = "launch"
  /\ timer = "running"
  /\ num_threads = 4
  /\ RangesComputed = 1
  /\ threads[1].pc = "store"

\* C14: the process ends with exit code 0 exactly when the pipeline completed,
\* and every failure raised during the run is caught in main and ends the process
\* with exit code 1; in particular the process is never aborted.
C14_ExitStatus ==
  /\ pc # "aborted"
  /\ exit_code \in {-1, 0, 1}
  /\ pc = "done" => (exit_code = 0 <=> stats # <<>>)
  /\ pc = "done" => (exit_code = 1 <=> stats = <<>>)

\* C15: the summary is computed from sums as the last trial of the list left it:
\* its minimum, maximum and total over N are those of the exact per-vector sums.
\* For the dataset of one vector filled with min_val and one filled with max_val
\* the sums are M*min_val and M*max_val, the minimum and maximum likewise, and the
\* total (so the mean) is 0.
ExactSums == {ExactSum(vectors[i]) : i \in Indices}

RECURSIVE ExactTotal(_)
ExactTotal(n) == IF n = 0 THEN 0 ELSE ExactTotal(n - 1) + ExactSum(vectors[n - 1])

MinMaxDataset ==
  /\ Size(vectors) = 2
  /\ vectors[0] = [j \in 1..VecSize |-> MinVal]
  /\ vectors[1] = [j \in 1..VecSize |-> MaxVal]

C15_SummaryOfLastTrial ==
  pc \in {"exit", "done"} =>
    /\ Len(results) = Len(thread_counts)
    /\ sums = results[Len(results)]
    /\ Len(stats) = 4
    /\ stats[1] \in ExactSums /\ \A x \in ExactSums : stats[1] <= x
    /\ stats[2] \in ExactSums /\ \A x \in ExactSums : stats[2] >= x
    /\ stats[3] = ExactTotal(Size(vectors))
    /\ stats[4] = Size(vectors)
    /\ MinMaxDataset =>
         /\ sums[0] = VecSize * MinVal /\ sums[1] = VecSize * MaxVal
         /\ stats = <<VecSize * MinVal, VecSize * MaxVal, 0, 2>>

C15_Witness ==
  /\ pc = "done"
  /\ MinMaxDataset
  /\ stats[1] = sums[0]
  /\ stats[2] = sums[1]
  /\ stats[3] = 0

\* C16: a worker holds output_mutex only around its print: never while it sums or
\* stores, only after the last store of its range, for exactly one line, and not
\* any more when it has terminated; a worker that is summing or storing can always
\* take its next step, whoever holds the mutex.
Holds(t) == output_mutex = threads[t].thread_id

C16_LockScopePrintOnly ==
  \A t \in DOMAIN threads :
    /\ threads[t].pc \in {"loop", "store", "lock", "done"} => ~Holds(t)
    /\ Holds(t) =>
         /\ threads[t].pc \in {"print", "unlock"}
         /\ threads[t].i = threads[t].end_idx
         /\ \A i \in Indices : InRange(t, i) => writers[i] = <<threads[t].thread_id>>
    /\ threads[t].pc = "print" => threads[t].printed = <<>>
    /\ threads[t].pc \in {"unlock", "done"} => Len(threads[t].printed) = 1
    /\ threads[t].pc \in {"loop", "store"} =>
         ENABLED (workerLoop(t) \/ workerStore(t))

C16_Witness ==
  \E t, u \in DOMAIN threads :
    /\ threads[t].pc = "unlock"
    /\ Holds(t)
    /\ threads[u].pc = "store"

\* C17: a worker prints at most one line, only after it has stored every index of
\* its range, carrying its thread id (1..W in launch order), its start and its
\* end - 1; when the timer is stopped each of the W workers has printed its line.
\* (At "measure" the next trial's reset has already cleared the record of stores
\* while the finished threads of the last trial are still in view.)
RECURSIVE LinesUpTo(_)
LinesUpTo(k) == IF k = 0 THEN 0 ELSE LinesUpTo(k - 1) + Len(threads[k].printed)

C17_OneLinePerWorker ==
  /\ \A t \in DOMAIN threads :
       /\ threads[t].thread_id = t
       /\ Len(threads[t].printed) <= 1
       /\ threads[t].printed # <<>> =>
            /\ threads[t].printed[1]
                 = <<t, threads[t].start_idx, threads[t].end_idx - 1>>
            /\ pc # "measure" =>
                 \A i \in Indices : InRange(t, i) => writers[i] = <<t>>
  /\ pc \in {"stop", "validate", "report"} => Len(threads) = num_threads
  /\ (pc = "stop" \/ timer = "stopped") =>
       /\ \A t \in DOMAIN threads : Len(threads[t].printed) = 1
       /\ LinesUpTo(Len(threads)) = Len(threads)

C17_Witness ==
  /\ pc = "stop"
  /\ timer = "running"
  /\ num_threads = 4
  /\ Size(vectors) = 3
  /\ threads[2].printed = << <<2, 1, 1>> >>
  /\ threads[4].printed = << <<4, 3, 2>> >>

\* C18: under fair scheduling no state short of the end has every thread blocked;
\* every trial that starts launching reaches the end of its join loop, where every
\* worker has taken the mutex, printed its line, released the mutex and terminated;
\* and the run completes all trials of the list and ends.
AllWorkersFinished ==
  /\ Len(threads) = num_threads
  /\ output_mutex = 0
  /\ \A t \in DOMAIN threads :
       threads[t].pc = "done" /\ Len(threads[t].printed) = 1

C18_Termination ==
  /\ [](pc # "done" => ENABLED Next)
  /\ (pc = "launch") ~> (pc = "stop" /\ AllWorkersFinished)
  /\ <>(/\ pc = "done"
        /\ exit_code = 0
        /\ Len(execution_times) = Len(thread_counts)
        /\ thread_counts = ReferenceThreadCounts)

C18_Witness ==
  /\ pc = "join"
  /\ joined = 0
  /\ num_threads = 4
  /\ threads[1].pc = "lock"
  /\ threads[2].pc = "lock"
  /\ threads[3].pc = "unlock"
  /\ threads[4].pc = "lock"

\* C19: with more workers than vectors (W > N >= 1) every one of the W workers is
\* still launched; worker k <= N receives the single index k - 1, every worker
\* k > N receives the empty range [N, N), never stores into sums and prints its one
\* line; at the end of the join loop every index was stored exactly once, all W
\* workers have terminated, and the sums of the trial equal those of the W = 1 trial.
MoreWorkersThanVectors ==
  /\ pc \in {"launch", "join", "stop", "validate", "report"}
  /\ Size(vectors) >= 1
  /\ num_threads > Size(vectors)

C19_MoreWorkersThanVectors ==
  MoreWorkersThanVectors =>
    /\ \A k \in DOMAIN threads :
         IF k <= Size(vectors)
           THEN /\ threads[k].start_idx = k - 1
                /\ threads[k].end_idx = k
           ELSE /\ threads[k].start_idx = Size(vectors)
                /\ threads[k].end_idx = Size(vectors)
                /\ \A i \in Indices : \A j \in DOMAIN writers[i] : writers[i][j] # k
                /\ threads[k].pc \in {"loop", "lock", "print", "unlock", "done"}
                /\ threads[k].pc \in {"unlock", "done"} =>
                     threads[k].printed
                       = << <<k, Size(vectors), Size(vectors) - 1>> >>
    /\ AllLaunched => Len(threads) = num_threads
    /\ pc \in {"stop", "validate", "report"} =>
         /\ \A k \in DOMAIN threads :
              threads[k].pc = "done" /\ Len(threads[k].printed) = 1
         /\ \A i \in Indices : writers[i] = <<i + 1>>
         /\ \A i \in Indices : sums[i] = ExactSum(vectors[i])
    /\ pc \in {"validate", "report"} =>
         /\ Len(results) = trial
         /\ thread_counts[1] = 1
         /\ results[trial] = results[1]

C19_Witness ==
  /\ pc = "validate"
  /\ trial = 2
  /\ Size(vectors) = 1
  /\ num_threads = 3
  /\ Len(threads) = 3
  /\ threads[3].start_idx = 1
  /\ threads[3].end_idx = 1
  /\ threads[3].pc = "done"
  /\ threads[3].printed = << <<3, 1, 0>> >>
  /\ sums[0] # 0

\* C20: every value a per-vector accumulator takes, on the way and at the end, lies
\* in [M * min_val, M * max_val] for vectors of M elements, and every value the
\* summary total takes lies in [N * M * min_val, N * M * max_val]; these intervals,
\* and the one of the reference scenario, lie inside the signed 64-bit range.
Between(x, lo, hi) == lo <= x /\ x <= hi

\* the values sum takes in calculateSumsRange while it accumulates v
AccumulatorValues(v) == {Accumulate(SubSeq(v, 1, j), 1, 0) : j \in 0..Len(v)}

\* the values total_sum takes in the summary loop over f
TotalValues(f) ==
  {TotalFrom([i \in 0..(k - 1) |-> f[i]], 0, 0) : k \in 0..Size(f)}

\* 30000 * 100 <= 2^31 - 1 and 1000 <= 2^31 - 1, so the product is below 2^62
ReferenceFits ==
  /\ RefNumVectors * RefVecSize <= LLongFloor
  /\ MaxVal <= LLongFloor
  /\ -MinVal <= LLongFloor

C20_NoOverflow ==
  /\ ReferenceFits
  /\ \A i \in Indices :
       /\ Len(vectors[i]) = VecSize
       /\ \A x \in AccumulatorValues(vectors[i]) :
            Between(x, VecSize * MinVal, VecSize * MaxVal)
  /\ \A t \in DOMAIN threads :
       Between(threads[t].sum, VecSize * MinVal, VecSize * MaxVal)
  /\ \A i \in DOMAIN sums :
       Between(sums[i], VecSize * MinVal, VecSize * MaxVal)
  /\ \A x \in TotalValues(sums) :
       /\ Between(x, Size(sums) * VecSize * MinVal, Size(sums) * VecSize * MaxVal)
       /\ Between(x, -LLongFloor, LLongFloor)
  /\ stats # <<>> =>
       /\ stats[3] \in TotalValues(sums)
       /\ Between(stats[3], stats[4] * VecSize * MinVal, stats[4] * VecSize * MaxVal)

C20_Witness ==
  /\ pc = "exit"
  /\ Size(vectors) = MaxN
  /\ \A i \in Indices : \A j \in DOMAIN vectors[i] : vectors[i][j] = MaxVal
  /\ \A t \in DOMAIN threads : t <= MaxN => threads[t].sum = VecSize * MaxVal
  /\ stats[2] = VecSize * MaxVal
  /\ stats[3] = MaxN * VecSize * MaxVal
====
